---- MODULE Spec2Model ----
(***************************************************************************)
(* lit-localize runtime locale switcher (src/unnamed/part_001).            *)
(*                                                                         *)
(* The module-level variables of the source are the state; every exported  *)
(* or returned function is one action, and the two continuations that      *)
(* setLocale hands to loadLocale(newLocale).then(...) are one action each. *)
(* Execution is single threaded: a call or a continuation runs to its end  *)
(* before anything else does, so each is one atomic step.                  *)
(*                                                                         *)
(* The context provider (context-provider.ts, with the ContextEvent of     *)
(* src/unnamed/part_000) shares no state with the locale switcher: its     *)
(* operations are the actions of CtxSpec, and msg is applied under MsgSpec.*)
(***************************************************************************)
EXTENDS Integers, Sequences, FiniteSets, TLC

\* ---------------------------------------------------------------- bounds
\* Most loadLocale invocations in one behaviour.
MaxLoads == 3
\* Most Deferred objects constructed in one behaviour (the initial one included).
MaxDeferreds == 3

\* validLocales = undefined (a Set built by configureLocalization is never empty).
NoValidLocales == {}

\* ------------------------------------------------------------ input sets
\* The JavaScript value `undefined`, for the string-valued variables.
Undefined == "undefined"
\* Locale codes a caller may pass to setLocale ("xx" is in no configuration).
LocaleCodes == {"en", "fr", "de", "xx"}
\* config.sourceLocale values a caller may pass.
ConfigSources == {"en", "fr"}
\* config.targetLocales values a caller may pass.
ConfigTargets == {{"fr", "de"}, {"de"}}

VARIABLES
    activeLocale,   \* let activeLocale = ''
    loadingLocale,  \* let loadingLocale: string | undefined
    sourceLocale,   \* let sourceLocale: string | undefined
    validLocales,   \* let validLocales: Set<string> | undefined
    loadLocale,     \* let loadLocale: ((locale) => Promise<LocaleModule>) | undefined
    configured,     \* let configured = false
    templates,      \* let templates: TemplateMap | undefined
    loading,        \* let loading = new Deferred<void>()  (index into deferreds)
    deferreds,      \* every Deferred constructed so far, in construction order
    loads,          \* every loadLocale(newLocale) invocation so far, in call order
    api,            \* the functions handed back to the caller by a configure call
    last,           \* the call or continuation that ran last, and how it ended
    lastTarget,     \* history: newLocale of the latest setLocale call that returned
    listening,      \* per provider: onContextRequest is a listener of its host
    connected,      \* per provider: hostConnected ran after the last hostDisconnected
    callbacks,      \* per provider: the callbacks its container holds
    ctxLast         \* the context operation that ran last, and what it did

vars == <<activeLocale, loadingLocale, sourceLocale, validLocales, loadLocale,
          configured, templates, loading, deferreds, loads, api, last, lastTarget,
          listening, connected, callbacks, ctxLast>>

\* The variables of the program itself (history and bookkeeping left out).
progVars == <<activeLocale, loadingLocale, sourceLocale, validLocales, loadLocale,
              configured, templates, loading, deferreds>>

\* The variables of the context provider.
ctxVars == <<listening, connected, callbacks, ctxLast>>

\* The variables of the locale switcher.
localeVars == <<progVars, loads, api, last, lastTarget>>

\* ------------------------------------------------------------- Deferred
\* new Deferred(): settled = false, the promise pending.
\* `settles` counts the resolve/reject invocations made on the object.
NewDeferred == [settled |-> FALSE, state |-> "pending", settles |-> 0]

\* Deferred.resolve: settled = true; this._resolve(value) fulfils the promise
\* unless the promise was settled before (a promise keeps its first outcome).
DeferredResolve(d) ==
    [settled |-> TRUE,
     state   |-> IF d.state = "pending" THEN "fulfilled" ELSE d.state,
     settles |-> d.settles + 1]

\* Deferred.reject: settled = true; this._reject(error).
DeferredReject(d) ==
    [settled |-> TRUE,
     state   |-> IF d.state = "pending" THEN "rejected" ELSE d.state,
     settles |-> d.settles + 1]

\* -------------------------------------------------------------- tables
\* templates = undefined
NoTemplates == [locale |-> Undefined, load |-> 0]

\* mod.templates of the module the i-th loadLocale invocation resolves with:
\* the loader is external, so two invocations for one locale may give two tables.
ModTemplates(i) == [locale |-> loads[i].locale, load |-> i]

\* ------------------------------------------------------------ bookkeeping
\* How a call ended: it returned (setLocale: the Deferred whose promise it
\* returned, and the loadLocale invocation it made, 0 for none) or it threw.
Returned(op, arg, promise, load) ==
    [op |-> op, arg |-> arg, threw |-> "none", promise |-> promise, load |-> load]
Threw(op, arg, error) ==
    [op |-> op, arg |-> arg, threw |-> error, promise |-> 0, load |-> 0]

\* ------------------------------------------------- context provider: setup
\* Context keys: objects compared by identity; two of them carry one label.
ThemeKey      == [id |-> 1, label |-> "theme"]
OtherThemeKey == [id |-> 2, label |-> "theme"]
ContextKeys   == {ThemeKey, OtherThemeKey}

\* The tree: node 1 is the root, node 2 its child, node 3 the child of node 2.
Nodes == {1, 2, 3}
\* The parent of a node (0 for the root).
Parent(n) == n - 1

\* The providers constructed: new ContextProvider(host, context).
Providers == {"outer", "inner", "innerTwin", "innerOther"}
\* this.host
Host(p) == IF p = "outer" THEN 1 ELSE 2
\* this.context
ProviderContext(p) == IF p = "innerOther" THEN OtherThemeKey ELSE ThemeKey

\* The callback a requester passes.
Callbacks == {"cb1"}

\* After construction: no listener is attached and no callback is held.
CtxInit ==
    /\ listening = [p \in Providers |-> FALSE]
    /\ connected = [p \in Providers |-> FALSE]
    /\ callbacks = [p \in Providers |-> {}]
    /\ ctxLast = [op |-> "init"]

Init ==
    /\ CtxInit
    /\ activeLocale = ""
    /\ loadingLocale = Undefined
    /\ sourceLocale = Undefined
    /\ validLocales = NoValidLocales
    /\ loadLocale = Undefined
    /\ configured = FALSE
    /\ templates = NoTemplates
    /\ loading = 1
    /\ deferreds = <<NewDeferred>>
    /\ loads = <<>>
    /\ api = {}
    /\ last = Returned("init", Undefined, 0, 0)
    /\ lastTarget = Undefined

\* ------------------------------------------------------- configuration
\* Variant of AlreadyConfigured: only a runtime configuration is noticed.
AlreadyConfiguredRuntimeOnly == configured = TRUE /\ loadLocale # Undefined

\* if (configured === true) throw ...
AlreadyConfigured == configured = TRUE

\* validLocales = new Set(config.targetLocales); validLocales.add(config.sourceLocale)
BuildValidLocales(src, targets) == targets \cup {src}

configureLocalization(src, targets) ==
    IF AlreadyConfigured
    THEN /\ last' = Threw("configureLocalization", src, "lit-localize can only be configured once")
         /\ UNCHANGED <<progVars, loads, api, lastTarget, ctxVars>>
    ELSE /\ configured' = TRUE
         /\ activeLocale' = src
         /\ sourceLocale' = src
         /\ validLocales' = BuildValidLocales(src, targets)
         /\ loadLocale' = "loader"
         /\ api' = {"getLocale", "setLocale"}
         /\ last' = Returned("configureLocalization", src, 0, 0)
         /\ UNCHANGED <<loadingLocale, templates, loading, deferreds, loads, lastTarget,
                        ctxVars>>

configureTransformLocalization(src) ==
    IF AlreadyConfigured
    THEN /\ last' = Threw("configureTransformLocalization", src, "lit-localize can only be configured once")
         /\ UNCHANGED <<progVars, loads, api, lastTarget, ctxVars>>
    ELSE /\ configured' = TRUE
         /\ activeLocale' = src
         /\ sourceLocale' = src
         /\ api' = {"getLocale"}
         /\ last' = Returned("configureTransformLocalization", src, 0, 0)
         /\ UNCHANGED <<loadingLocale, validLocales, loadLocale, templates, loading,
                        deferreds, loads, lastTarget, ctxVars>>

\* -------------------------------------------------------------- getLocale
GetLocaleResult == activeLocale

getLocale ==
    /\ "getLocale" \in api
    /\ last' = Returned("getLocale", GetLocaleResult, 0, 0)
    /\ UNCHANGED <<progVars, loads, api, lastTarget, ctxVars>>

\* -------------------------------------------------------------- setLocale
\* if (!configured || !validLocales || !loadLocale)
NotConfigured ==
    \/ ~configured
    \/ validLocales = NoValidLocales
    \/ loadLocale = Undefined

\* Variant of MergeCheck: the call is compared with the active locale alone.
MergeCheckActiveOnly(newLocale) == newLocale = activeLocale

\* if (newLocale === loadingLocale ?? activeLocale)
\* `===` binds tighter than `??`, so the condition is
\* (newLocale === loadingLocale) ?? activeLocale.  Its left operand is a
\* boolean, never null or undefined, so activeLocale is never consulted.
MergeCheck(newLocale) == newLocale = loadingLocale

\* Variant of IsValidLocale: the membership test is left out.
IsValidLocaleAlways(newLocale) == TRUE

\* Variant of IsValidLocale: any non-empty code passes.
IsValidLocaleNonEmpty(newLocale) == newLocale # ""

\* validLocales.has(newLocale)
IsValidLocale(newLocale) == newLocale \in validLocales

\* Variant of NeedsFreshDeferred: every transition replaces the Deferred.
NeedsFreshDeferredAlways == TRUE

\* Variant of NeedsFreshDeferred: the Deferred is never replaced.
NeedsFreshDeferredNever == FALSE

\* Variant of NeedsFreshDeferred: replaced after a success, kept after a failure.
NeedsFreshDeferredFulfilledOnly == deferreds[loading].state = "fulfilled"

\* if (loading.settled) loading = new Deferred()
NeedsFreshDeferred == deferreds[loading].settled

\* Variant of IsSourceLocale: the call is compared with the active locale.
IsSourceLocaleActive(newLocale) == newLocale = activeLocale

\* Variant of IsSourceLocale: every valid locale is switched to synchronously.
IsSourceLocaleValid(newLocale) == newLocale \in validLocales

\* if (newLocale === sourceLocale)
IsSourceLocale(newLocale) == newLocale = sourceLocale

\* Variant of SourceTemplates: the table is not cleared.
SourceTemplatesKept == templates

\* templates = undefined, in the source-locale branch
SourceTemplates == NoTemplates

\* A pending load is superseded (history) once a later call starts a transition.
Supersede(ls) ==
    [i \in DOMAIN ls |->
        IF ls[i].status = "pending" THEN [ls[i] EXCEPT !.superseded = TRUE] ELSE ls[i]]

setLocale(newLocale) ==
    /\ "setLocale" \in api
    /\ UNCHANGED ctxVars
    /\ IF NotConfigured
       THEN /\ last' = Threw("setLocale", newLocale, "Must call configureLocalization before setLocale")
            /\ UNCHANGED <<progVars, loads, api, lastTarget>>
       ELSE IF MergeCheck(newLocale)
       THEN /\ last' = Returned("setLocale", newLocale, loading, 0)
            /\ lastTarget' = newLocale
            /\ UNCHANGED <<progVars, loads, api>>
       ELSE IF ~IsValidLocale(newLocale)
       THEN /\ last' = Threw("setLocale", newLocale, "Invalid locale code")
            /\ UNCHANGED <<progVars, loads, api, lastTarget>>
       ELSE LET fresh == NeedsFreshDeferred
                ds    == IF fresh THEN Append(deferreds, NewDeferred) ELSE deferreds
                cur   == IF fresh THEN Len(deferreds) + 1 ELSE loading
            IN  /\ fresh => Len(deferreds) < MaxDeferreds
                /\ loading' = cur
                /\ lastTarget' = newLocale
                /\ IF IsSourceLocale(newLocale)
                   THEN /\ activeLocale' = newLocale
                        /\ loadingLocale' = Undefined
                        /\ templates' = SourceTemplates
                        /\ deferreds' = [ds EXCEPT ![cur] = DeferredResolve(ds[cur])]
                        /\ loads' = Supersede(loads)
                        /\ last' = Returned("setLocale", newLocale, cur, 0)
                   ELSE /\ Len(loads) < MaxLoads
                        /\ loadingLocale' = newLocale
                        /\ deferreds' = ds
                        /\ loads' = Append(Supersede(loads),
                                           [locale |-> newLocale, status |-> "pending",
                                            superseded |-> FALSE])
                        /\ last' = Returned("setLocale", newLocale, cur, Len(loads) + 1)
                        /\ UNCHANGED <<activeLocale, templates>>
                /\ UNCHANGED <<sourceLocale, validLocales, loadLocale, configured, api>>

\* ------------------------------------------- loadLocale(newLocale).then(...)
\* Variant of StillLoadingOnResolve: the continuation commits unconditionally.
StillLoadingOnResolveAlways(newLocale) == TRUE

\* if (newLocale === loadingLocale), in the fulfilment continuation
StillLoadingOnResolve(newLocale) == newLocale = loadingLocale

\* Variant of StillLoadingOnReject: a failure is always dropped.
StillLoadingOnRejectNever(newLocale) == FALSE

\* if (newLocale === loadingLocale), in the rejection continuation
StillLoadingOnReject(newLocale) == newLocale = loadingLocale

\* (mod) => {...}: the promise of the i-th loadLocale invocation is fulfilled.
loadResolved(i) ==
    /\ loads[i].status = "pending"
    /\ loads' = [loads EXCEPT ![i].status = "resolved"]
    /\ last' = Returned("loadResolved", loads[i].locale, 0, i)
    /\ IF StillLoadingOnResolve(loads[i].locale)
       THEN /\ activeLocale' = loads[i].locale
            /\ loadingLocale' = Undefined
            /\ templates' = ModTemplates(i)
            /\ deferreds' = [deferreds EXCEPT ![loading] = DeferredResolve(deferreds[loading])]
       ELSE UNCHANGED <<activeLocale, loadingLocale, templates, deferreds>>
    /\ UNCHANGED <<sourceLocale, validLocales, loadLocale, configured, loading, api, lastTarget,
                   ctxVars>>

\* (err) => {...}: the promise of the i-th loadLocale invocation is rejected.
loadRejected(i) ==
    /\ loads[i].status = "pending"
    /\ loads' = [loads EXCEPT ![i].status = "rejected"]
    /\ last' = Returned("loadRejected", loads[i].locale, 0, i)
    /\ IF StillLoadingOnReject(loads[i].locale)
       THEN deferreds' = [deferreds EXCEPT ![loading] = DeferredReject(deferreds[loading])]
       ELSE UNCHANGED deferreds
    /\ UNCHANGED <<activeLocale, loadingLocale, templates, sourceLocale, validLocales,
                   loadLocale, configured, loading, api, lastTarget, ctxVars>>

Next ==
    \/ \E src \in ConfigSources, targets \in ConfigTargets : configureLocalization(src, targets)
    \/ \E src \in ConfigSources : configureTransformLocalization(src)
    \/ getLocale
    \/ \E newLocale \in LocaleCodes : setLocale(newLocale)
    \/ \E i \in 1..MaxLoads : i \in DOMAIN loads /\ loadResolved(i)
    \/ \E i \in 1..MaxLoads : i \in DOMAIN loads /\ loadRejected(i)

Spec == Init /\ [][Next]_vars

\* Every loadLocale promise is eventually settled by the loader, one way or the other.
Fairness == \A i \in 1..MaxLoads :
    WF_vars(i \in DOMAIN loads /\ (loadResolved(i) \/ loadRejected(i)))

FairSpec == Spec /\ Fairness

\* -------------------------------------------------------------------- msg
\* Template-like values (TemplateLike): a string, a TemplateResult or a function.
Str(text) == [kind |-> "string", val |-> text, params |-> <<>>]
Tpl(text) == [kind |-> "template", val |-> text, params |-> <<>>]
Fn(name)  == [kind |-> "function", val |-> name, params |-> <<>>]

\* templates[id] for an id the table does not hold: undefined.
NoEntry == [kind |-> "undefined", val |-> "", params |-> <<>>]

\* template(...params): what the function named f.val returns for params.
Apply(f, params) == [kind |-> "result", val |-> f.val, params |-> params]

\* JavaScript truthiness, as tested by `if (localized)`: undefined and the
\* empty string are falsy, every other string, object and function is truthy.
Truthy(v) ==
    \/ v.kind \in {"template", "function"}
    \/ v.kind = "string" /\ v.val # ""

\* Template ids passed to msg.
MsgIds == {"greeting", "count", "plural_suffix", "missing"}
\* Call-site values passed to msg.
CallSiteTemplates == {Str("Hello"), Str("s"), Tpl("<b>Hello</b>"), Fn("src_count")}
\* ...params passed to msg.
ParamLists == {<<>>, <<"3">>}

\* mod.templates as resolved by the i-th invocation of a sample loader: the
\* tables of a locale differ between a first and a repeated load.
LoaderModule(locale, i) ==
    IF locale = "fr"
    THEN IF i % 2 = 1
         THEN [id \in {"greeting", "count"} |->
                  IF id = "greeting" THEN Str("Bonjour") ELSE Fn("fr_count")]
         ELSE [id \in {"greeting"} |-> Tpl("<b>Bonjour</b>")]
    ELSE IF i % 2 = 1
         THEN [id \in {"greeting", "plural_suffix"} |->
                  IF id = "greeting" THEN Str("Hallo") ELSE Str("")]
         ELSE [id \in {"greeting", "count", "plural_suffix"} |->
                  IF id = "greeting" THEN Str("Hallo")
                  ELSE IF id = "count" THEN Fn("de_count") ELSE Str("en")]

\* The entries of the current templates table.
TemplateMap == LoaderModule(templates.locale, templates.load)

\* if (templates)
TemplatesLoaded == templates # NoTemplates

\* templates[id]
Lookup(id) == IF id \in DOMAIN TemplateMap THEN TemplateMap[id] ELSE NoEntry

\* The value msg(id, template, ...params) returns.
MsgResult(id, template, params) ==
    LET chosen == IF TemplatesLoaded /\ Truthy(Lookup(id)) THEN Lookup(id) ELSE template
    IN  IF chosen.kind = "function" THEN Apply(chosen, params) ELSE chosen

msg(id, template, params) ==
    /\ last' = [op |-> "msg", arg |-> id, threw |-> "none", promise |-> 0, load |-> 0,
                template |-> template, params |-> params,
                result |-> MsgResult(id, template, params)]
    /\ UNCHANGED <<progVars, loads, api, lastTarget, ctxVars>>

\* The states msg is called in: configured for runtime with source "en", either
\* untouched or after n successive completed loads of one target locale.
MsgInit ==
    \E l \in {"fr", "de"}, n \in 0..MaxLoads :
        /\ n <= MaxDeferreds
        /\ CtxInit
        /\ configured = TRUE
        /\ sourceLocale = "en"
        /\ validLocales = BuildValidLocales("en", {"fr", "de"})
        /\ loadLocale = "loader"
        /\ api = {"getLocale", "setLocale"}
        /\ loadingLocale = Undefined
        /\ loads = [i \in 1..n |-> [locale |-> l, status |-> "resolved", superseded |-> FALSE]]
        /\ activeLocale = IF n = 0 THEN "en" ELSE l
        /\ templates = IF n = 0 THEN NoTemplates ELSE [locale |-> l, load |-> n]
        /\ deferreds = IF n = 0 THEN <<NewDeferred>>
                       ELSE [i \in 1..n |-> DeferredResolve(NewDeferred)]
        /\ loading = IF n = 0 THEN 1 ELSE n
        /\ lastTarget = IF n = 0 THEN Undefined ELSE l
        /\ last = IF n = 0 THEN Returned("configureLocalization", "en", 0, 0)
                  ELSE Returned("loadResolved", l, 0, n)

MsgNext ==
    \E id \in MsgIds, template \in CallSiteTemplates, params \in ParamLists :
        msg(id, template, params)

MsgSpec == MsgInit /\ [][MsgNext]_vars

\* ------------------------------------------------------- context provider
\* Variant of SameContext: keys are compared by their label.
SameContextByLabel(a, b) == a.label = b.label

\* ev.context !== this.context, negated: the two are one object.
SameContext(a, b) == a.id = b.id

\* ContextContainer.addCallback(callback, multiple): the callback is invoked
\* with the current value at once, and kept for later values when multiple.
AddCallback(held, callback, multiple) == IF multiple THEN held \cup {callback} ELSE held

\* ContextContainer.clearCallbacks()
ClearCallbacks(held) == {}

\* The providers whose onContextRequest listens on node n.
ListenersAt(n) == {p \in Providers : Host(p) = n /\ listening[p]}

\* The listeners on node n that pass `if (ev.context !== this.context) return`:
\* each of them calls ev.stopPropagation() and this.addCallback(...).
HandlersAt(n, context) == {p \in ListenersAt(n) : SameContext(context, ProviderContext(p))}

\* The nodes a bubbling event dispatched on node n visits: every listener of a
\* node runs, and the event moves on to the parent unless one of them called
\* stopPropagation().
RECURSIVE Visited(_, _)
Visited(n, context) ==
    {n} \cup IF HandlersAt(n, context) # {} \/ Parent(n) = 0
             THEN {}
             ELSE Visited(Parent(n), context)

\* hostConnected(): this.host.addEventListener('context-request', this.onContextRequest)
hostConnected(p) ==
    /\ ~connected[p]
    /\ connected' = [connected EXCEPT ![p] = TRUE]
    /\ listening' = [listening EXCEPT ![p] = TRUE]
    /\ ctxLast' = [op |-> "hostConnected", provider |-> p]
    /\ UNCHANGED <<callbacks, localeVars>>

\* hostDisconnected(): this.clearCallbacks()
hostDisconnected(p) ==
    /\ connected[p]
    /\ connected' = [connected EXCEPT ![p] = FALSE]
    /\ callbacks' = [callbacks EXCEPT ![p] = ClearCallbacks(callbacks[p])]
    /\ ctxLast' = [op |-> "hostDisconnected", provider |-> p]
    /\ UNCHANGED <<listening, localeVars>>

\* node.dispatchEvent(new ContextEvent(context, callback, multiple)): the event
\* bubbles from the node through its ancestors, running onContextRequest of
\* every listening provider of each node it visits.
dispatchContextRequest(n, context, callback, multiple) ==
    LET visited == Visited(n, context)
        seenBy  == UNION {ListenersAt(m) : m \in visited}
        handled == UNION {HandlersAt(m, context) : m \in visited}
    IN  /\ callbacks' = [p \in Providers |->
                            IF p \in handled
                            THEN AddCallback(callbacks[p], callback, multiple)
                            ELSE callbacks[p]]
        /\ ctxLast' = [op |-> "dispatch", node |-> n, context |-> context,
                       callback |-> callback, multiple |-> multiple,
                       visited |-> visited, seenBy |-> seenBy, handledBy |-> handled]
        /\ UNCHANGED <<listening, connected, localeVars>>

CtxNext ==
    \/ \E p \in Providers : hostConnected(p)
    \/ \E p \in Providers : hostDisconnected(p)
    \/ \E n \in Nodes, context \in ContextKeys, callback \in Callbacks, multiple \in BOOLEAN :
           dispatchContextRequest(n, context, callback, multiple)

CtxSpec == Init /\ [][CtxNext]_vars

\* ================================================================ claims
\* The step is the fulfilment continuation of load i, and it committed
\* (the table of load i became the current one).
Commits(i) ==
    /\ i \in DOMAIN loads
    /\ loads[i].status = "pending"
    /\ loads'[i].status = "resolved"
    /\ templates'.load = i

\* The step is a call of setLocale(newLocale).
SetLocaleCall == last'.op = "setLocale"

\* No load is in flight and no transition is pending.
Idle ==
    /\ loadingLocale = Undefined
    /\ \A i \in DOMAIN loads : loads[i].status # "pending"

\* The step is the fulfilment continuation of load i.
Fulfils(i) ==
    /\ i \in DOMAIN loads
    /\ loads[i].status = "pending"
    /\ loads'[i].status = "resolved"

\* C1: last request wins. Whenever a loader completion commits, the locale it
\* commits is the newLocale of the most recent setLocale call that returned
\* (a call that threw requested nothing); the completion of a load for any
\* other locale leaves activeLocale as it is.
C1_LastRequestWins ==
    [][\A i \in 1..MaxLoads :
        /\ Commits(i) => activeLocale' = lastTarget /\ loads[i].locale = lastTarget
        /\ (Fulfils(i) /\ loads[i].locale # lastTarget) => activeLocale' = activeLocale]_vars

\* C1 witness: a load committed the latest request after the load of an
\* earlier request for another locale had completed and been passed over.
C1_Witness ==
    /\ last.op = "loadResolved"
    /\ templates.load = last.load
    /\ activeLocale = lastTarget
    /\ \E j \in DOMAIN loads :
          /\ loads[j].superseded
          /\ loads[j].status = "resolved"
          /\ loads[j].locale # activeLocale

\* C2: the successful completion of a superseded load changes none of
\* activeLocale, templates, loadingLocale and does not resolve the readiness
\* promise.
C2_SupersededLoadDiscarded ==
    [][\A i \in 1..MaxLoads :
        (/\ i \in DOMAIN loads
         /\ loads[i].status = "pending"
         /\ loads[i].superseded
         /\ loads'[i].status = "resolved")
        => UNCHANGED <<activeLocale, templates, loadingLocale, loading, deferreds>>]_vars

\* C3: the rejection of a superseded load never rejects the readiness promise.
C3_SupersededFailureDropped ==
    [][\A i \in 1..MaxLoads :
        (/\ i \in DOMAIN loads
         /\ loads[i].status = "pending"
         /\ loads[i].superseded
         /\ loads'[i].status = "rejected")
        => UNCHANGED <<loading, deferreds>>]_vars

\* C4: with no load in flight, setLocale(activeLocale) returns the existing
\* readiness promise, invokes no loader, creates no Deferred and changes no state.
C4_IdleSameLocaleIsNoOp ==
    [][(/\ SetLocaleCall
        /\ ~NotConfigured
        /\ Idle
        /\ last'.arg = activeLocale)
       => /\ UNCHANGED progVars
          /\ loads' = loads
          /\ last'.threw = "none"
          /\ last'.promise = loading]_vars

\* C5: while the load of the pending transition to L is in flight, setLocale(L)
\* returns the pending transition's promise, invokes no loader and changes no state.
C5_LoadingSameLocaleIsNoOp ==
    [][(/\ SetLocaleCall
        /\ last'.arg = loadingLocale
        /\ \E i \in DOMAIN loads : loads[i].status = "pending" /\ loads[i].locale = loadingLocale)
       => /\ UNCHANGED progVars
          /\ loads' = loads
          /\ last'.threw = "none"
          /\ last'.load = 0
          /\ last'.promise = loading]_vars

\* C5 witness: setLocale(L) has just returned the pending promise without a
\* loader invocation while the load of L was in flight.
C5_Witness ==
    /\ last.op = "setLocale"
    /\ last.threw = "none"
    /\ last.load = 0
    /\ last.arg = loadingLocale
    /\ last.promise = loading
    /\ deferreds[loading].state = "pending"
    /\ \E i \in DOMAIN loads : loads[i].status = "pending" /\ loads[i].locale = loadingLocale

\* C6: every promise returned by setLocale eventually settles, given that every
\* loader invocation eventually resolves or rejects (FairSpec) and finitely many
\* calls are made (MaxLoads, MaxDeferreds).  setLocale returns the current
\* deferred, so the property is stated in two parts: a deferred that is no longer
\* the current one is settled, and once setLocale has returned, a pending current
\* deferred leads to a settled one.
C6_ReturnedPromiseSettles ==
    /\ [](\A d \in DOMAIN deferreds : d # loading => deferreds[d].state # "pending")
    /\ (lastTarget # Undefined /\ deferreds[loading].state = "pending")
          ~> (deferreds[loading].state # "pending")

\* C6 witness: a promise returned while pending was settled by the completion
\* of a load that had superseded another one.
C6_Witness ==
    /\ last.op = "loadResolved"
    /\ deferreds[loading].state = "fulfilled"
    /\ \E j \in DOMAIN loads : loads[j].superseded /\ loads[j].status # "pending"
    /\ \A i \in DOMAIN loads : loads[i].status # "pending"

\* The step is a call of one of the two configuration functions.
ConfigureCall == last'.op \in {"configureLocalization", "configureTransformLocalization"}

\* C7: after a successful configuration, every further call of either
\* configuration function throws and leaves all state unchanged.
C7_ConfigureOnce ==
    [][(configured /\ ConfigureCall)
       => /\ last'.threw = "lit-localize can only be configured once"
          /\ UNCHANGED <<progVars, loads, api, lastTarget>>]_vars

\* C7 witness: configureTransformLocalization threw after a runtime configuration
\* with another source locale.
C7_Witness ==
    /\ last.op = "configureTransformLocalization"
    /\ last.threw = "lit-localize can only be configured once"
    /\ loadLocale # Undefined
    /\ last.arg # sourceLocale

\* C8: in a configured state, setLocale(x) with x outside
\* targetLocales \cup {sourceLocale} throws, changes no state and invokes no loader.
C8_InvalidLocaleRejected ==
    [][(/\ configured
        /\ SetLocaleCall
        /\ last'.arg \notin validLocales \cup {sourceLocale})
       => /\ last'.threw # "none"
          /\ UNCHANGED progVars
          /\ loads' = loads]_vars

\* C8 witness: an invalid locale was refused while a load was in flight.
C8_Witness ==
    /\ last.op = "setLocale"
    /\ last.threw = "Invalid locale code"
    /\ last.arg \notin validLocales
    /\ loadingLocale # Undefined
    /\ \E i \in DOMAIN loads : loads[i].status = "pending"

\* C9: once configured, activeLocale is a member of validLocales \cup {sourceLocale}.
C9_ActiveLocaleValid ==
    configured => activeLocale \in validLocales \cup {sourceLocale}

\* C9 witness: a load committed a target locale.
C9_Witness ==
    /\ configured
    /\ last.op = "loadResolved"
    /\ templates.load = last.load
    /\ activeLocale # sourceLocale
    /\ activeLocale \in validLocales

\* C10: once configured, templates is empty when activeLocale is the source
\* locale, and otherwise is the table a loader invocation for exactly
\* activeLocale resolved with.
C10_TemplatesMatchActive ==
    configured =>
        IF activeLocale = sourceLocale
        THEN templates = NoTemplates
        ELSE /\ templates.load \in DOMAIN loads
             /\ loads[templates.load].locale = activeLocale
             /\ loads[templates.load].status = "resolved"
             /\ templates = ModTemplates(templates.load)

\* C10 witness: back on the source locale, with an empty table, after a target
\* locale had been committed.
C10_Witness ==
    /\ configured
    /\ activeLocale = sourceLocale
    /\ templates = NoTemplates
    /\ last.op = "setLocale"
    /\ \E i \in DOMAIN loads : loads[i].status = "resolved" /\ ~loads[i].superseded

\* C11: the loader is invoked only with locales of the configured target set
\* (validLocales is targetLocales plus sourceLocale) and never with the
\* source locale.
C11_LoaderOnlyTargets ==
    \A i \in DOMAIN loads :
        /\ loads[i].locale \in validLocales
        /\ loads[i].locale # sourceLocale

\* C11 witness: the loader has been invoked, and since then an invalid code was
\* refused, with a configuration whose targetLocales names the source locale.
C11_Witness ==
    /\ Len(loads) >= 2
    /\ last.op = "setLocale"
    /\ last.threw = "Invalid locale code"
    /\ activeLocale # sourceLocale
    /\ validLocales = {"fr", "de"}
    /\ sourceLocale = "fr"

\* C12: setLocale(sourceLocale) completes synchronously from any state in which
\* it can be called: on return activeLocale is the source locale, templates and
\* loadingLocale are empty, and the promise returned is resolved.
C12_SourceLocaleSynchronous ==
    [][(/\ SetLocaleCall
        /\ ~NotConfigured
        /\ last'.arg = sourceLocale)
       => /\ last'.threw = "none"
          /\ last'.load = 0
          /\ activeLocale' = sourceLocale
          /\ templates' = NoTemplates
          /\ loadingLocale' = Undefined
          /\ last'.promise = loading'
          /\ deferreds'[last'.promise].state = "fulfilled"]_vars

\* C12 witness: setLocale(sourceLocale) returned a resolved promise after a
\* load had failed and while another load was in flight.
C12_Witness ==
    /\ last.op = "setLocale"
    /\ last.arg = sourceLocale
    /\ activeLocale = sourceLocale
    /\ deferreds[last.promise].state = "fulfilled"
    /\ \E i \in DOMAIN loads : loads[i].status = "rejected"
    /\ \E i \in DOMAIN loads : loads[i].status = "pending"
    /\ \E d \in DOMAIN deferreds : deferreds[d].state = "rejected"

\* The step is a setLocale call that started a transition: it invoked the
\* loader or switched to the source locale.
TransitionStarted ==
    /\ SetLocaleCall
    /\ last'.threw = "none"
    /\ (last'.load # 0 \/ last'.arg = sourceLocale)

\* C17: a setLocale call that starts a transition constructs a fresh Deferred
\* if and only if the previous one is settled; while the Deferred is pending
\* every setLocale call returns that same promise, and no call that starts no
\* transition constructs one.
C17_ReArmedWhenSettled ==
    [][(SetLocaleCall /\ last'.threw = "none")
       => /\ deferreds[loading].state = "pending"
               => /\ last'.promise = loading
                  /\ loading' = loading
                  /\ Len(deferreds') = Len(deferreds)
          /\ TransitionStarted
               => /\ deferreds[loading].settled
                       <=> (Len(deferreds') = Len(deferreds) + 1 /\ loading' = Len(deferreds'))
                  /\ ~deferreds[loading].settled <=> loading' = loading
                  /\ last'.promise = loading'
          /\ ~TransitionStarted => Len(deferreds') = Len(deferreds)]_vars

\* C17 witness: the second Deferred, made because the first was settled, is
\* pending and has just been returned to a call that superseded a pending load.
C17_Witness ==
    /\ last.op = "setLocale"
    /\ Len(loads) = 3
    /\ last.load = 3
    /\ last.promise = 2
    /\ loading = 2
    /\ deferreds[1].settled
    /\ deferreds[2].state = "pending"
    /\ loads[2].status = "pending"
    /\ loads[2].superseded

\* C18: a setLocale call for a locale other than the source locale changes
\* neither activeLocale nor templates (nor the configuration) and settles no
\* Deferred, and when it starts a load loadingLocale becomes its argument;
\* activeLocale and templates change only when a loader completion commits,
\* when setLocale(sourceLocale) is called, or at configuration.
C18_LoadStartKeepsVisibleLocale ==
    [][/\ (SetLocaleCall /\ last'.arg # sourceLocale)
            => /\ UNCHANGED <<activeLocale, templates, sourceLocale, validLocales,
                              loadLocale, configured>>
               /\ GetLocaleResult' = GetLocaleResult
               /\ \A d \in DOMAIN deferreds : deferreds'[d] = deferreds[d]
               /\ last'.load # 0 => loadingLocale' = last'.arg
       /\ (<<activeLocale, templates>>' # <<activeLocale, templates>>)
            => \/ \E i \in 1..MaxLoads : Commits(i)
               \/ SetLocaleCall /\ last'.arg = sourceLocale
               \/ ConfigureCall]_vars

\* C18 witness: a load of another target has just been started while a
\* previously loaded target is active with its table.
C18_Witness ==
    /\ last.op = "setLocale"
    /\ last.load # 0
    /\ loadingLocale = last.arg
    /\ activeLocale # sourceLocale
    /\ activeLocale # loadingLocale
    /\ templates.locale = activeLocale

\* The load of the pending transition has failed and nothing was requested since.
AfterFailure ==
    /\ Len(loads) > 0
    /\ loads[Len(loads)].status = "rejected"
    /\ loadingLocale = loads[Len(loads)].locale

C20_SettledAtMostOnce ==
    \A d \in DOMAIN deferreds : deferreds[d].settles <= 1

\* C13: msg uses the table's entry in place of the call-site value exactly when
\* a table is loaded and holds id, otherwise the call-site value; a function is
\* applied to params, any other value is returned as it is; msg does not fail.
C13_MsgSubstitutesWhenPresent ==
    last.op = "msg" =>
        LET present == templates # NoTemplates /\ last.arg \in DOMAIN TemplateMap
            chosen  == IF present THEN TemplateMap[last.arg] ELSE last.template
        IN  /\ last.threw = "none"
            /\ last.result = IF chosen.kind = "function"
                             THEN Apply(chosen, last.params) ELSE chosen

\* C14: a provider registered for a key that receives a request for another
\* key (another object, even with the same label) neither registers nor invokes
\* the request's callback and does not stop the request: unless a provider of
\* the requested key listens on the same node, the request reaches the parent.
C14_IdentityMatching ==
    [][ctxLast'.op = "dispatch" =>
        \A p \in Providers :
            (listening[p] /\ Host(p) \in ctxLast'.visited /\ ProviderContext(p) # ctxLast'.context)
            => /\ p \notin ctxLast'.handledBy
               /\ callbacks'[p] = callbacks[p]
               /\ (/\ Parent(Host(p)) # 0
                   /\ \A q \in Providers :
                        (listening[q] /\ Host(q) = Host(p))
                        => ProviderContext(q) # ctxLast'.context)
                  => Parent(Host(p)) \in ctxLast'.visited]_vars

\* C14 witness: a request for the second "theme" key passed the listening
\* providers of the first "theme" key on nodes 2 and 1 unanswered.
C14_Witness ==
    /\ ctxLast.op = "dispatch"
    /\ ctxLast.context = OtherThemeKey
    /\ ctxLast.node = 3
    /\ ctxLast.multiple
    /\ ctxLast.seenBy = {"outer", "inner", "innerTwin"}
    /\ ctxLast.visited = Nodes
    /\ ctxLast.handledBy = {}
    /\ \A p \in Providers : callbacks[p] = {}

\* C15: a dispatched request is consumed by at most one provider, whether the
\* other providers of its key sit further up or on the same host node.
C15_AtMostOneProvider ==
    ctxLast.op = "dispatch" => Cardinality(ctxLast.handledBy) <= 1

\* C16: between hostDisconnected and the next hostConnected a provider has no
\* request listener attached, holds no callbacks and answers no request.
C16_DisconnectedProviderSilent ==
    \A p \in Providers :
        ~connected[p]
        => /\ ~listening[p]
           /\ callbacks[p] = {}
           /\ ctxLast.op = "dispatch" => p \notin ctxLast.handledBy
====
